---- MODULE Spec2Model ----
(***************************************************************************)
(* AndroidFingerprintAuth (src/src/plugins/android-fingerprint-auth.ts):   *)
(* four static methods decorated with @Cordova() that hand an options      *)
(* object to the native FingerprintAuth plugin and return a Promise, and   *)
(* the static ERRORS table.                                                *)
(*                                                                         *)
(* The @Cordova() decorator lives in ./plugin (imported on line 1), which  *)
(* is not among the source files; it is modelled from the specification:   *)
(* one Promise per call, the options handed to the bridge in the same      *)
(* step, the native success callback resolving and the native error        *)
(* callback rejecting.  The native plugin is the environment.              *)
(***************************************************************************)
EXTENDS Naturals, Sequences, FiniteSets

\* Number of calls the callers make in one run.
MaxCalls == 2

CallIds == 1..MaxCalls

\* An optional field that is absent (JavaScript undefined).
NONE == "undefined"
\* The value slot of a Promise that holds no result.
Undefined == [undefined |-> TRUE]

VARIABLES
  ERRORS,       \* AndroidFingerprintAuth.ERRORS, the static table
  promise,      \* call id -> the Promise returned to the caller
  request,      \* call id -> what the wrapper handed to the bridge
  bridge,       \* call ids in the order the native bridge received them
  reported      \* call id -> the native layer's reply to the pending call

vars == <<ERRORS, promise, request, bridge, reported>>

----------------------------------------------------------------------------
\* interface AndroidFingerprintAuthErrors: its declared fields.
AndroidFingerprintAuthErrors ==
  { "BAD_PADDING_EXCEPTION", "CERTIFICATE_EXCEPTION", "FINGERPRINT_CANCELLED",
    "FINGERPRINT_DATA_NOT_DELETED", "FINGERPRINT_ERROR", "FINGERPRINT_NOT_AVAILABLE",
    "FINGERPRINT_PERMISSION_DENIED", "FINGERPRINT_PERMISSION_DENIED_SHOW_REQUEST",
    "ILLEGAL_BLOCK_SIZE_EXCEPTION", "INIT_CIPHER_FAILED",
    "INVALID_ALGORITHM_PARAMETER_EXCEPTION", "IO_EXCEPTION", "JSON_EXCEPTION",
    "MINIMUM_SDK", "MISSING_ACTION_PARAMETERS", "MISSING_PARAMETERS",
    "NO_SUCH_ALGORITHM_EXCEPTION", "SECURITY_EXCEPTION" }

\* Mutants of the table: an entry dropped, a value in another case, a key renamed.
ErrorsTableEntryDropped ==
  [k \in AndroidFingerprintAuthErrors \ {"SECURITY_EXCEPTION"} |-> k]

ErrorsTableLowerCaseValue ==
  [k \in AndroidFingerprintAuthErrors |->
     IF k = "FINGERPRINT_CANCELLED" THEN "fingerprint_cancelled" ELSE k]

ErrorsTableKeyRenamed ==
  [k \in (AndroidFingerprintAuthErrors \ {"MISSING_ACTION_PARAMETERS"})
           \cup {"MISSING_ACTION_PARAMETER"} |-> k]

\* static ERRORS = { ... }: the object literal, entry by entry.
ErrorsTable ==
  [ BAD_PADDING_EXCEPTION |-> "BAD_PADDING_EXCEPTION",
    CERTIFICATE_EXCEPTION |-> "CERTIFICATE_EXCEPTION",
    FINGERPRINT_CANCELLED |-> "FINGERPRINT_CANCELLED",
    FINGERPRINT_DATA_NOT_DELETED |-> "FINGERPRINT_DATA_NOT_DELETED",
    FINGERPRINT_ERROR |-> "FINGERPRINT_ERROR",
    FINGERPRINT_NOT_AVAILABLE |-> "FINGERPRINT_NOT_AVAILABLE",
    FINGERPRINT_PERMISSION_DENIED |-> "FINGERPRINT_PERMISSION_DENIED",
    FINGERPRINT_PERMISSION_DENIED_SHOW_REQUEST |-> "FINGERPRINT_PERMISSION_DENIED_SHOW_REQUEST",
    ILLEGAL_BLOCK_SIZE_EXCEPTION |-> "ILLEGAL_BLOCK_SIZE_EXCEPTION",
    INIT_CIPHER_FAILED |-> "INIT_CIPHER_FAILED",
    INVALID_ALGORITHM_PARAMETER_EXCEPTION |-> "INVALID_ALGORITHM_PARAMETER_EXCEPTION",
    IO_EXCEPTION |-> "IO_EXCEPTION",
    JSON_EXCEPTION |-> "JSON_EXCEPTION",
    MINIMUM_SDK |-> "MINIMUM_SDK",
    MISSING_ACTION_PARAMETERS |-> "MISSING_ACTION_PARAMETERS",
    MISSING_PARAMETERS |-> "MISSING_PARAMETERS",
    NO_SUCH_ALGORITHM_EXCEPTION |-> "NO_SUCH_ALGORITHM_EXCEPTION",
    SECURITY_EXCEPTION |-> "SECURITY_EXCEPTION" ]

----------------------------------------------------------------------------
\* interface AndroidFingerprintAuthOptions, restricted to the fields the
\* operations read: clientId, username, password, token (each present or absent).
AndroidFingerprintAuthOptions ==
  [ clientId : {NONE, "myAppName"},
    username : {NONE, "myUsername"},
    password : {NONE, "myPassword"},
    token    : {NONE, "dG9rZW4="} ]

\* isAvailable() takes no argument.
NoOptions == [clientId |-> NONE, username |-> NONE, password |-> NONE, token |-> NONE]

\* The option objects the callers pass to each operation.
EncryptOptions ==
  { o \in AndroidFingerprintAuthOptions :
      o.username # NONE /\ o.password # NONE /\ o.token = NONE }

DecryptOptions ==
  { o \in AndroidFingerprintAuthOptions : o.username = NONE /\ o.password = NONE }

DeleteOptions ==
  { o \in AndroidFingerprintAuthOptions : o.password = NONE /\ o.token = NONE }

\* Mutant: token not counted as required for decrypt.
RequiredFieldsTokenOptional(op) ==
  CASE op = "encrypt"     -> {"clientId"}
    [] op = "decrypt"     -> {"clientId"}
    [] op = "delete"      -> {"clientId", "username"}
    [] op = "isAvailable" -> {}

\* The fields the source marks required: clientId ("Required"), token
\* ("Required for decrypt()"), delete(options: {clientId; username}),
\* isAvailable() with no parameter.
RequiredFields(op) ==
  CASE op = "encrypt"     -> {"clientId"}
    [] op = "decrypt"     -> {"clientId", "token"}
    [] op = "delete"      -> {"clientId", "username"}
    [] op = "isAvailable" -> {}

WellFormed(op, o) == \A f \in RequiredFields(op) : o[f] # NONE

\* The declared result types of the four operations.
EncryptResults == [withFingerprint : BOOLEAN, withBackup : BOOLEAN, token : {"dG9rZW4="}]
DecryptResults == [withFingerprint : BOOLEAN, withBackup : BOOLEAN, password : {"myPassword"}]
AvailabilityResults == [isAvailable : BOOLEAN]
DeleteResults == [deleted : BOOLEAN]

ResultsOf(op) ==
  CASE op = "encrypt"     -> EncryptResults
    [] op = "decrypt"     -> DecryptResults
    [] op = "delete"      -> DeleteResults
    [] op = "isAvailable" -> AvailabilityResults

----------------------------------------------------------------------------
\* The native layer (environment).  A request lacking a required field is
\* answered with MISSING_PARAMETERS; any other request is answered with a result
\* of the operation's type, a catalog code, or an error text outside the catalog.
OpaqueNativeError == "java.lang.IllegalStateException"

NativeSuccessValues(r) ==
  IF WellFormed(r.op, r.options) THEN ResultsOf(r.op) ELSE {}

NativeErrorValues(r) ==
  IF WellFormed(r.op, r.options)
    THEN {"FINGERPRINT_CANCELLED", OpaqueNativeError}
    ELSE {"MISSING_PARAMETERS"}

----------------------------------------------------------------------------
\* Promise and the @Cordova() wrapper.
Settled == {"resolved", "rejected"}

NoRequest == [op |-> "none", options |-> NoOptions]
NoReply == [kind |-> "none", value |-> Undefined, reason |-> NONE]
NewPromise == [state |-> "pending", value |-> Undefined, reason |-> NONE, settles |-> 0]
NoPromise == [state |-> "unused", value |-> Undefined, reason |-> NONE, settles |-> 0]

\* Mutant: a settlement that overwrites an earlier one.
SettleOverwrites(p, kind, v, e) ==
  [state |-> kind, value |-> v, reason |-> e, settles |-> p.settles + 1]

\* resolve/reject of a Promise: the first settlement wins, later ones are ignored.
Settle(p, kind, v, e) ==
  IF p.state = "pending"
    THEN [state |-> kind, value |-> v, reason |-> e, settles |-> p.settles + 1]
    ELSE p

\* Success callback of the wrapper.
OnSuccess(p, v) == Settle(p, "resolved", v, NONE)

\* Mutant: an error outside the catalog is replaced by FINGERPRINT_ERROR.
OnErrorNormalised(p, e) ==
  Settle(p, "rejected", Undefined,
         IF e \in AndroidFingerprintAuthErrors THEN e ELSE "FINGERPRINT_ERROR")

\* Error callback of the wrapper.
OnError(p, e) == Settle(p, "rejected", Undefined, e)

\* One decorated call: a new Promise, and the options handed to the bridge.
Cordova(c, op, o) ==
  /\ c \in CallIds
  /\ promise[c].state = "unused"
  /\ \A d \in CallIds : d < c => promise[d].state # "unused"
  /\ promise' = [promise EXCEPT ![c] = NewPromise]
  /\ request' = [request EXCEPT ![c] = [op |-> op, options |-> o]]
  /\ bridge' = Append(bridge, c)
  /\ UNCHANGED <<ERRORS, reported>>

\* Mutant: encrypt is held back while another call is pending.
encryptSerialized(c, o) ==
  /\ \A d \in CallIds : promise[d].state # "pending"
  /\ Cordova(c, "encrypt", o)

encrypt(c, o) == Cordova(c, "encrypt", o)

decrypt(c, o) == Cordova(c, "decrypt", o)

isAvailable(c) == Cordova(c, "isAvailable", NoOptions)

\* Mutant: delete records its call in the error table.
deleteWritesErrors(c, o) ==
  /\ c \in CallIds
  /\ promise[c].state = "unused"
  /\ \A d \in CallIds : d < c => promise[d].state # "unused"
  /\ promise' = [promise EXCEPT ![c] = NewPromise]
  /\ request' = [request EXCEPT ![c] = [op |-> "delete", options |-> o]]
  /\ bridge' = Append(bridge, c)
  /\ ERRORS' = [ERRORS EXCEPT !["FINGERPRINT_DATA_NOT_DELETED"] = "FINGERPRINT_DATA_DELETED"]
  /\ UNCHANGED reported

delete(c, o) == Cordova(c, "delete", o)

\* Bookkeeping of a native callback: the reply to a pending call is recorded;
\* the native layer may call back again for a call that is already settled.
Reply(c, r) ==
  IF promise[c].state = "pending"
    THEN reported' = [reported EXCEPT ![c] = r]
    ELSE UNCHANGED reported

InFlight(c) == \E i \in 1..Len(bridge) : bridge[i] = c

NativeSuccess(c, v) ==
  /\ InFlight(c)
  /\ v \in NativeSuccessValues(request[c])
  /\ Reply(c, [kind |-> "success", value |-> v, reason |-> NONE])
  /\ promise' = [promise EXCEPT ![c] = OnSuccess(@, v)]
  /\ UNCHANGED <<ERRORS, request, bridge>>

NativeError(c, e) ==
  /\ InFlight(c)
  /\ e \in NativeErrorValues(request[c])
  /\ Reply(c, [kind |-> "error", value |-> Undefined, reason |-> e])
  /\ promise' = [promise EXCEPT ![c] = OnError(@, e)]
  /\ UNCHANGED <<ERRORS, request, bridge>>

NativeReplies(c) ==
  /\ InFlight(c)
  /\ \/ \E v \in NativeSuccessValues(request[c]) : NativeSuccess(c, v)
     \/ \E e \in NativeErrorValues(request[c]) : NativeError(c, e)

----------------------------------------------------------------------------
Init ==
  /\ ERRORS = ErrorsTable
  /\ promise = [c \in CallIds |-> NoPromise]
  /\ request = [c \in CallIds |-> NoRequest]
  /\ bridge = <<>>
  /\ reported = [c \in CallIds |-> NoReply]

Next ==
  \/ \E c \in CallIds, o \in EncryptOptions : encrypt(c, o)
  \/ \E c \in CallIds, o \in DecryptOptions : decrypt(c, o)
  \/ \E c \in CallIds : isAvailable(c)
  \/ \E c \in CallIds, o \in DeleteOptions : delete(c, o)
  \/ \E c \in CallIds :
        InFlight(c) /\ \E v \in NativeSuccessValues(request[c]) : NativeSuccess(c, v)
  \/ \E c \in CallIds :
        InFlight(c) /\ \E e \in NativeErrorValues(request[c]) : NativeError(c, e)

Spec == Init /\ [][Next]_vars

\* The native layer answers every request it has received.
FairSpec == Spec /\ \A c \in CallIds : WF_vars(NativeReplies(c))

----------------------------------------------------------------------------
\* Vocabulary of the properties.
Called(c) == request[c].op # "none"

CalledWellFormed(c) == Called(c) /\ WellFormed(request[c].op, request[c].options)

Dispatches(c) == Cardinality({i \in 1..Len(bridge) : bridge[i] = c})

CatalogValues == {ERRORS[k] : k \in DOMAIN ERRORS}

C2_FailureForwardedVerbatim ==
  \A c \in CallIds :
    reported[c].kind = "error" =>
      /\ promise[c].state = "rejected"
      /\ promise[c].reason = reported[c].reason
      /\ Dispatches(c) = 1

\* A call rejected with an error text that is not in the catalog.
C2_Witness ==
  \E c \in CallIds :
    /\ reported[c].kind = "error"
    /\ reported[c].reason \notin CatalogValues
    /\ promise[c].state = "rejected"
    /\ promise[c].reason = OpaqueNativeError

\* The omissions C4 names: clientId on any operation, token on decrypt,
\* username on delete.
OmitsNamedParameter(c) ==
  \/ request[c].options.clientId = NONE
  \/ request[c].op = "decrypt" /\ request[c].options.token = NONE
  \/ request[c].op = "delete" /\ request[c].options.username = NONE

C5_CatalogHas17Entries == Cardinality(DOMAIN ERRORS) = 17

\* C5 as amended: the ERRORS catalog has exactly 18 entries.
C5_CatalogHas18Entries == Cardinality(DOMAIN ERRORS) = 18

\* A caller holds a rejection drawn from the 18-entry catalog.
C5_Witness ==
  /\ Cardinality(DOMAIN ERRORS) = 18
  /\ \E c \in CallIds : promise[c].state = "rejected" /\ promise[c].reason \in CatalogValues

\* C6: every key of the ERRORS catalog maps to the string that is the key
\* itself, so distinct keys map to distinct values.
C6_ValueEqualsKey ==
  /\ \A k \in DOMAIN ERRORS : ERRORS[k] = k
  /\ \A j, k \in DOMAIN ERRORS : ERRORS[j] = ERRORS[k] => j = k

\* A caller's rejection compares equal to ERRORS.FINGERPRINT_CANCELLED and to
\* the literal "FINGERPRINT_CANCELLED".
C6_Witness ==
  \E c \in CallIds :
    /\ promise[c].state = "rejected"
    /\ promise[c].reason = ERRORS["FINGERPRINT_CANCELLED"]
    /\ promise[c].reason = "FINGERPRINT_CANCELLED"

\* The identifiers the specification's catalog list enumerates.
SpecCatalogList ==
  { "BAD_PADDING_EXCEPTION", "CERTIFICATE_EXCEPTION", "FINGERPRINT_CANCELLED",
    "FINGERPRINT_DATA_NOT_DELETED", "FINGERPRINT_ERROR", "FINGERPRINT_NOT_AVAILABLE",
    "FINGERPRINT_PERMISSION_DENIED", "FINGERPRINT_PERMISSION_DENIED_SHOW_REQUEST",
    "ILLEGAL_BLOCK_SIZE_EXCEPTION", "INIT_CIPHER_FAILED",
    "INVALID_ALGORITHM_PARAMETER_EXCEPTION", "IO_EXCEPTION", "JSON_EXCEPTION",
    "MINIMUM_SDK", "MISSING_ACTION_PARAMETERS", "MISSING_PARAMETERS",
    "NO_SUCH_ALGORITHM_EXCEPTION", "SECURITY_EXCEPTION" }

\* C7: the keys of the ERRORS catalog are exactly the identifiers of the
\* specification's list and exactly the fields of AndroidFingerprintAuthErrors.
C7_KeysAreTheListedIdentifiers ==
  /\ DOMAIN ERRORS = SpecCatalogList
  /\ DOMAIN ERRORS = AndroidFingerprintAuthErrors

\* A rejection with MISSING_PARAMETERS is found under that key of the table.
C7_Witness ==
  \E c \in CallIds :
    /\ promise[c].state = "rejected"
    /\ promise[c].reason \in SpecCatalogList
    /\ promise[c].reason \in DOMAIN ERRORS
    /\ promise[c].reason = "MISSING_PARAMETERS"

\* C9: no call of encrypt, decrypt, isAvailable or delete, and no resolution
\* or rejection, changes the keys or the values of the ERRORS catalog.
C9_ErrorsNeverMutated == [][ERRORS' = ERRORS]_vars

\* Both calls have been made, one is resolved and one rejected, and the table
\* is the one loaded with the module.
C9_Witness ==
  /\ \E c, d \in CallIds : promise[c].state = "resolved" /\ promise[d].state = "rejected"
  /\ \E c \in CallIds : request[c].op = "delete"
  /\ ERRORS = ErrorsTable

\* Every operation can be called for the next free call, whatever the state
\* of the earlier calls.
NextCallAccepted ==
  Len(bridge) < MaxCalls =>
    LET c == Len(bridge) + 1 IN
      /\ \A o \in EncryptOptions : ENABLED encrypt(c, o)
      /\ \A o \in DecryptOptions : ENABLED decrypt(c, o)
      /\ \A o \in DeleteOptions : ENABLED delete(c, o)
      /\ ENABLED isAvailable(c)

\* C10: a call is handed to the native bridge in its own step and in call
\* order, also while earlier calls are pending; no call is queued, delayed,
\* reordered or dropped; and a step that settles one call leaves every other
\* call's Promise and request as they were.
C10_CallsIndependent ==
  /\ [](\A c \in CallIds : (promise[c].state # "unused") <=> (Dispatches(c) = 1))
  /\ [](\A i \in 1..Len(bridge) : bridge[i] = i)
  /\ []NextCallAccepted
  /\ [][\A c, d \in CallIds :
          (c # d /\ promise'[c] # promise[c])
            => (promise'[d] = promise[d] /\ request'[d] = request[d])]_vars

\* The second call was made while the first was pending, and has been settled
\* while the first is still pending.
C10_Witness ==
  /\ promise[1].state = "pending"
  /\ promise[2].state \in Settled

====
